---------------------------- MODULE Spec2Model ----------------------------
(***************************************************************************)
(* Rockfon inventory reorder tool: the ingestion-and-calculation pipeline  *)
(* of src/core (parser.py, calculator.py, models.py) and its caller main   *)
(* in src/app.py.                                                          *)
(*                                                                         *)
(* Numbers.  Quantities are Python floats.  A quantity v is held as the    *)
(* integer v * Den with Den = 2^FracBits, so every value of the model is a *)
(* dyadic rational on which the float arithmetic of the code (one          *)
(* multiplication by 3, one subtraction, comparisons) is exact.  The       *)
(* quotient qoh / monthly_avg is held as a fraction [num, den].            *)
(*                                                                         *)
(* Strings.  A string the code inspects character by character (item_id,   *)
(* sku, display_name) is a sequence of one-character strings; a sheet name *)
(* is only compared for equality and is a TLA+ string.                     *)
(***************************************************************************)
EXTENDS Integers, Sequences, FiniteSets, TLC

VARIABLES
    pc,        \* position of the running computation
    wb,        \* the uploaded file: what pd.ExcelFile / pd.read_excel give
    idx,       \* parse_excel: position in xl.sheet_names
    all_data,  \* parse_excel: list of the non-empty per-sheet frames
    stats,     \* parse_excel: sheet name -> row count
    df,        \* the combined frame parse_excel returns (a row sequence)
    ri,        \* process_inventory: position in df.iterrows()
    items,     \* the InventoryItem list
    counts,    \* count_by_urgency result
    outcome,   \* what main reported to the user
    arg,       \* argument pair of a direct calculator call
    ret        \* result of a direct calculator call

vars == <<pc, wb, idx, all_data, stats, df, ri, items, counts, outcome, arg, ret>>

---------------------------------------------------------------------------
(* Bounds *)

FracBits == 2
MaxQty == 40
MaxSheets == 2
MaxSheetRows == 1
MaxRows == 2
MaxItems == 4

Den == 2 ^ FracBits

---------------------------------------------------------------------------
(* Numbers *)

\* A float of a numeric column: n / Den, NaN (a missing value), or an
\* infinity, for which n is its sign, so that x < 0 and x <= 0 read x.n.
Num(n) == [nan |-> FALSE, inf |-> FALSE, n |-> n]
NaN == [nan |-> TRUE, inf |-> FALSE, n |-> 0]
PosInf == [nan |-> FALSE, inf |-> TRUE, n |-> 1]
NegInf == [nan |-> FALSE, inf |-> TRUE, n |-> -1]

\* pd.isna
isna(x) == x.nan

\* Python int(x) of a float x = n / Den: truncation toward zero.
int(n) == IF n >= 0 THEN n \div Den ELSE -((-n) \div Den)

\* A quotient of two floats, kept exact.
Rat(a, b) == [num |-> a, den |-> b]
Inf == Rat(1, 0)
Zero == Rat(0, 1)

\* months < k for a finite quotient (den > 0) and an integer k
RatLess(r, k) == r.num < k * r.den

Max(a, b) == IF a >= b THEN a ELSE b

---------------------------------------------------------------------------
(* models.py *)

Urgency == <<"CRITICAL", "URGENT", "WARNING", "OK">>

UrgencySet == {Urgency[i] : i \in 1..Len(Urgency)}

\* Urgency.<member>.value
value(u) == CHOOSE i \in 1..Len(Urgency) : Urgency[i] = u

InventoryItem(item_id, sku, category, display_name, qoh, monthly_average, months_of_stock, urgency, suggested_order_qty) ==
    [item_id |-> item_id, sku |-> sku, category |-> category,
     display_name |-> display_name, qoh |-> qoh,
     monthly_average |-> monthly_average, months_of_stock |-> months_of_stock,
     urgency |-> urgency, suggested_order_qty |-> suggested_order_qty]

---------------------------------------------------------------------------
(* calculator.py *)

TARGET_MONTHS == 3

\* mutant: the URGENT boundary taken as months <= 1
calculate_urgency_le(qoh, monthly_avg) ==
    IF monthly_avg <= 0 THEN [urgency |-> "None", months |-> Inf]
    ELSE IF qoh <= 0 THEN [urgency |-> "CRITICAL", months |-> Zero]
    ELSE LET months == Rat(qoh, monthly_avg) IN
         IF months.num <= months.den THEN [urgency |-> "URGENT", months |-> months]
         ELSE IF RatLess(months, 2) THEN [urgency |-> "WARNING", months |-> months]
         ELSE [urgency |-> "OK", months |-> months]

\* mutant: no demand check, every row is classified
calculate_urgency_nodemand(qoh, monthly_avg) ==
    IF qoh <= 0 THEN [urgency |-> "CRITICAL", months |-> Zero]
    ELSE IF monthly_avg <= 0 THEN [urgency |-> "OK", months |-> Inf]
    ELSE LET months == Rat(qoh, monthly_avg) IN
         IF RatLess(months, 1) THEN [urgency |-> "URGENT", months |-> months]
         ELSE IF RatLess(months, 2) THEN [urgency |-> "WARNING", months |-> months]
         ELSE [urgency |-> "OK", months |-> months]

calculate_urgency(qoh, monthly_avg) ==
    IF monthly_avg <= 0 THEN [urgency |-> "None", months |-> Inf]
    ELSE IF qoh <= 0 THEN [urgency |-> "CRITICAL", months |-> Zero]
    ELSE LET months == Rat(qoh, monthly_avg) IN
         IF RatLess(months, 1) THEN [urgency |-> "URGENT", months |-> months]
         ELSE IF RatLess(months, 2) THEN [urgency |-> "WARNING", months |-> months]
         ELSE [urgency |-> "OK", months |-> months]

\* mutant: the result is not clamped at 0
calculate_suggested_order_noclamp(qoh, monthly_avg) ==
    IF monthly_avg <= 0 THEN 0
    ELSE int((TARGET_MONTHS * monthly_avg) - qoh)

\* mutant: the target is one month short
calculate_suggested_order_short(qoh, monthly_avg) ==
    IF monthly_avg <= 0 THEN 0
    ELSE LET needed == ((TARGET_MONTHS - 1) * monthly_avg) - qoh IN
         Max(0, int(needed))

calculate_suggested_order(qoh, monthly_avg) ==
    IF monthly_avg <= 0 THEN 0
    ELSE LET needed == (TARGET_MONTHS * monthly_avg) - qoh IN
         Max(0, int(needed))

\* str.startswith for a one-character prefix
startswith(s, c) == Len(s) > 0 /\ s[1] = c

is_valid_row(row) ==
    IF isna(row.qoh) \/ isna(row.monthly_average) THEN FALSE
    ELSE IF row.qoh.n < 0 \/ row.monthly_average.n < 0 THEN FALSE
    ELSE IF startswith(row.sku, "#") THEN FALSE
    ELSE IF startswith(row.display_name, "#") THEN FALSE
    ELSE IF startswith(row.item_id, "#") THEN FALSE
    ELSE TRUE

\* mutant: the order is computed from the floored quantity the item stores
process_row_floored(row, acc) ==
    IF ~is_valid_row(row) THEN [raised |-> FALSE, items |-> acc]
    ELSE IF row.monthly_average.inf THEN [raised |-> TRUE, items |-> acc]
    ELSE IF row.qoh.inf
    THEN [raised |-> row.monthly_average.n > 0, items |-> acc]
    ELSE LET qoh == row.qoh.n
             avg == row.monthly_average.n
             u == calculate_urgency(qoh, avg)
         IN IF u.urgency = "None" THEN [raised |-> FALSE, items |-> acc]
            ELSE [raised |-> FALSE, items |-> Append(acc, InventoryItem(row.item_id, row.sku, row.category, row.display_name, int(qoh), avg, u.months, u.urgency, calculate_suggested_order(int(qoh) * Den, avg)))]

\* process_inventory, the body of its loop on one row: the item list after
\* it, or raised when the row makes the loop raise.  A row that is not
\* valid, or whose urgency is None, is passed over.  An infinite quantity
\* (+inf; -inf is negative, so not valid) raises OverflowError:
\*   monthly_average = inf: urgency is not None (inf > 0), and then
\*     int(qoh) (qoh = inf) or int(needed) (needed = 3 * inf - qoh) raises;
\*   qoh = inf: with monthly_average <= 0 urgency is None, otherwise
\*     months = inf, urgency OK, and int(qoh) raises.
process_row(row, acc) ==
    IF ~is_valid_row(row) THEN [raised |-> FALSE, items |-> acc]
    ELSE IF row.monthly_average.inf THEN [raised |-> TRUE, items |-> acc]
    ELSE IF row.qoh.inf
    THEN [raised |-> row.monthly_average.n > 0, items |-> acc]
    ELSE LET qoh == row.qoh.n
             avg == row.monthly_average.n
             u == calculate_urgency(qoh, avg)
         IN IF u.urgency = "None" THEN [raised |-> FALSE, items |-> acc]
            ELSE [raised |-> FALSE, items |-> Append(acc, InventoryItem(row.item_id, row.sku, row.category, row.display_name, int(qoh), avg, u.months, u.urgency, calculate_suggested_order(qoh, avg)))]

\* the sort key of sort_items, and Python's order on such pairs
key(x) == <<value(x.urgency), -x.monthly_average>>
KeyLess(a, b) == a[1] < b[1] \/ (a[1] = b[1] /\ a[2] < b[2])

\* mutant: x goes in front of the elements with an equal key
insert_front(s, x) ==
    LET p == Cardinality({i \in 1..Len(s) : KeyLess(key(s[i]), key(x))})
    IN SubSeq(s, 1, p) \o <<x>> \o SubSeq(s, p + 1, Len(s))

\* x put into the sorted list s behind every element that is not greater
insert(s, x) ==
    LET p == Cardinality({i \in 1..Len(s) : ~KeyLess(key(x), key(s[i]))})
    IN SubSeq(s, 1, p) \o <<x>> \o SubSeq(s, p + 1, Len(s))

RECURSIVE sorted(_)
\* Python sorted(items, key=...): the stable ascending sort
sorted(s) ==
    IF s = <<>> THEN <<>>
    ELSE insert(sorted(SubSeq(s, 1, Len(s) - 1)), s[Len(s)])

sort_items(its) == sorted(its)

RECURSIVE count_loop(_, _)
\* count_by_urgency, its loop: counts after the items of its
count_loop(c, its) ==
    IF its = <<>> THEN c
    ELSE count_loop([c EXCEPT ![Head(its).urgency] = @ + 1], Tail(its))

\* mutant: OK items are not counted
count_by_urgency_alerts(its) ==
    count_loop([u \in UrgencySet |-> 0], SelectSeq(its, LAMBDA i : i.urgency # "OK"))

count_by_urgency(its) == count_loop([u \in UrgencySet |-> 0], its)

---------------------------------------------------------------------------
(* parser.py *)

\* str(nan)
NanStr == <<"n", "a", "n">>

\* a row of the frame parse_sheet builds (parser.py lines 67-72)
Row(item_id, sku, display_name, qoh, monthly_average, category) ==
    [item_id |-> item_id, sku |-> sku, display_name |-> display_name,
     qoh |-> qoh, monthly_average |-> monthly_average, category |-> category]


INVENTORY_SHEETS == {"Kits", "kit Components", "ColorChip", "Fleece", "Tiles", "Metal", "Wood", "Marketing"}

IGNORE_SHEETS == {"FULL 4 LOOK UP KEEP", "Componet Averages"}

STANDARD_COLUMNS == [item |-> 1, sku |-> 2, type |-> 3, display |-> 4, qoh |-> 5, avg |-> 6]

WOOD_COLUMNS == [item |-> 1, sku |-> 2, type |-> 3, display |-> 4, avg |-> 6, qoh |-> 7]

\* mutant: the Wood layout is forgotten
get_column_config_standard(sheet_name) == STANDARD_COLUMNS

get_column_config(sheet_name) ==
    IF sheet_name = "Wood" THEN WOOD_COLUMNS ELSE STANDARD_COLUMNS

\* A cell of the frame pd.read_excel returns: a float n / Den, an integer n,
\* a text or nothing.
NumCell(n) == [t |-> "num", n |-> n, s |-> <<>>]
IntCell(n) == [t |-> "int", n |-> n, s |-> <<>>]
TextCell(s) == [t |-> "text", n |-> 0, s |-> s]
EmptyCell == [t |-> "empty", n |-> 0, s |-> <<>>]

Digits == <<"0", "1", "2", "3", "4", "5", "6", "7", "8", "9">>

IsDigit(c) == \E d \in 1..Len(Digits) : Digits[d] = c

DigitValue(c) == (CHOOSE d \in 1..Len(Digits) : Digits[d] = c) - 1

RECURSIVE ParseDigits(_)
\* the integer an all-digit text spells (0 for the empty text)
ParseDigits(s) ==
    IF s = <<>> THEN 0
    ELSE 10 * ParseDigits(SubSeq(s, 1, Len(s) - 1)) + DigitValue(s[Len(s)])

RECURSIVE ToDigits(_)
\* str(k) for an integer k >= 0
ToDigits(k) ==
    IF k < 10 THEN <<Digits[k + 1]>>
    ELSE ToDigits(k \div 10) \o <<Digits[(k % 10) + 1]>>

RECURSIVE PadLeft(_, _)
PadLeft(s, w) == IF Len(s) >= w THEN s ELSE PadLeft(<<"0">> \o s, w)

RECURSIVE StripZeros(_)
StripZeros(s) ==
    IF Len(s) > 1 /\ s[Len(s)] = "0" THEN StripZeros(SubSeq(s, 1, Len(s) - 1)) ELSE s

\* str(x) of the float x = n / Den: sign, whole part, point, and the decimal
\* places of the fraction (f / 2^b = f * 5^b / 10^b), at least one
StrFloat(n) ==
    LET a == IF n < 0 THEN -n ELSE n
        frac == StripZeros(PadLeft(ToDigits((a % Den) * (5 ^ FracBits)), FracBits))
    IN (IF n < 0 THEN <<"-">> ELSE <<>>)
         \o ToDigits(a \div Den) \o <<".">> \o (IF frac = <<>> THEN <<"0">> ELSE frac)

\* str(k) of the integer k
StrInt(k) == IF k < 0 THEN <<"-">> \o ToDigits(-k) ELSE ToDigits(k)

\* Series.astype(str) on one cell: a text is itself, a missing value is
\* "nan", a float 1001.0 is "1001.0" and an integer 1001 is "1001".
astype_str(cell) ==
    CASE cell.t = "text" -> cell.s
      [] cell.t = "empty" -> NanStr
      [] cell.t = "num" -> StrFloat(cell.n)
      [] cell.t = "int" -> StrInt(cell.n)

UpperCase == <<"A", "B", "C", "D", "E", "F", "G", "H", "I", "J", "K", "L", "M", "N", "O", "P", "Q", "R", "S", "T", "U", "V", "W", "X", "Y", "Z">>
LowerCase == <<"a", "b", "c", "d", "e", "f", "g", "h", "i", "j", "k", "l", "m", "n", "o", "p", "q", "r", "s", "t", "u", "v", "w", "x", "y", "z">>

\* str.lower
Lower(s) ==
    [i \in 1..Len(s) |->
        IF \E k \in 1..Len(UpperCase) : UpperCase[k] = s[i]
        THEN LowerCase[CHOOSE k \in 1..Len(UpperCase) : UpperCase[k] = s[i]]
        ELSE s[i]]

\* the vertical tab, which a TLA+ string cannot hold: one element of a text
VT == "\\v"

\* the white space the numeric parser skips: space, \t, \n, \v, \f, \r
WhiteSpace == {" ", "\t", "\n", VT, "\f", "\r"}

RECURSIVE Strip(_)
\* the text without the white space around it
Strip(s) ==
    IF s # <<>> /\ s[1] \in WhiteSpace THEN Strip(Tail(s))
    ELSE IF s # <<>> /\ s[Len(s)] \in WhiteSpace THEN Strip(SubSeq(s, 1, Len(s) - 1))
    ELSE s

\* number of digits the text starts with
LeadDigits(s) ==
    CHOOSE k \in 0..Len(s) :
        /\ \A i \in 1..k : IsDigit(s[i])
        /\ k = Len(s) \/ ~IsDigit(s[k + 1])

Drop(s, k) == SubSeq(s, k + 1, Len(s))

\* the exponent part of a numeral: empty (0), or "e" or "E", a sign if any,
\* and digits
ParseExponent(r) ==
    IF r = <<>> THEN [ok |-> TRUE, e |-> 0]
    ELSE IF r[1] \notin {"e", "E"} THEN [ok |-> FALSE, e |-> 0]
    ELSE LET signed == Len(r) > 1 /\ r[2] \in {"+", "-"}
             digits == Drop(r, IF signed THEN 2 ELSE 1)
         IN IF digits = <<>> \/ LeadDigits(digits) # Len(digits)
            THEN [ok |-> FALSE, e |-> 0]
            ELSE [ok |-> TRUE, e |-> IF signed /\ r[2] = "-" THEN -ParseDigits(digits) ELSE ParseDigits(digits)]

\* sign * mant * 10^p as a float.  A value that is no multiple of 1 / Den
\* is not a number of this model and has no value here.
Scaled(sign, mant, p) ==
    CASE p >= 0 -> Num(sign * mant * (10 ^ p) * Den)
      [] p < 0 /\ (mant * Den) % (10 ^ (-p)) = 0 -> Num(sign * ((mant * Den) \div (10 ^ (-p))))

\* a decimal numeral whose k1 whole digits and k2 decimal places are known:
\* the exponent follows them
ParseTail(sign, body, k1, k2) ==
    LET point == Len(body) > k1 /\ body[k1 + 1] = "."
        digits == SubSeq(body, 1, k1) \o (IF point THEN SubSeq(body, k1 + 2, k1 + 1 + k2) ELSE <<>>)
    IN CHOOSE r \in {IF k1 + k2 = 0 \/ ~x.ok
                      THEN [ok |-> FALSE, v |-> NaN]
                      ELSE [ok |-> TRUE, v |-> Scaled(sign, ParseDigits(digits), x.e - k2)] :
                      x \in {ParseExponent(Drop(body, IF point THEN k1 + 1 + k2 ELSE k1))}} : TRUE

\* a decimal numeral whose k1 whole digits are known: a point and decimal
\* places may follow them
ParsePoint(sign, body, k1) ==
    CHOOSE r \in {ParseTail(sign, body, k1, k2) :
                     k2 \in {IF Len(body) > k1 /\ body[k1 + 1] = "."
                              THEN LeadDigits(Drop(body, k1 + 1)) ELSE 0}} : TRUE

\* an unsigned decimal numeral: digits, a point and digits if any (a digit
\* on one side at least), an exponent if any
ParseDecimal(sign, body) ==
    CHOOSE r \in {ParsePoint(sign, body, k1) : k1 \in {LeadDigits(body)}} : TRUE

\* the whole text is "inf" or "infinity" in any case, with a sign if any:
\* white space around it makes it another text
ParseInf(text) ==
    LET signed == text # <<>> /\ text[1] \in {"+", "-"}
        word == Lower(IF signed THEN Tail(text) ELSE text)
    IN IF word \in {<<"i", "n", "f">>, <<"i", "n", "f", "i", "n", "i", "t", "y">>}
       THEN [ok |-> TRUE, v |-> IF signed /\ text[1] = "-" THEN NegInf ELSE PosInf]
       ELSE [ok |-> FALSE, v |-> NaN]

\* The float a text spells, as the numeric parser behind pd.to_numeric reads
\* it: a decimal numeral with a sign if any and white space around it, or
\* else the whole text compared with the words for infinity.  ok: the text
\* is a numeral; v: its value.
ParseFloat(text) ==
    CHOOSE r \in {IF d.ok THEN d ELSE ParseInf(text) :
                     d \in {CHOOSE x \in {IF s # <<>> /\ s[1] \in {"+", "-"}
                                          THEN ParseDecimal(IF s[1] = "-" THEN -1 ELSE 1, Tail(s))
                                          ELSE ParseDecimal(1, s) : s \in {Strip(text)}} : TRUE}} : TRUE

\* pd.to_numeric(errors="coerce") on one cell: a number is itself, a text
\* that spells a number is that number ("2", "1.5\n", "-1", "1e1", "inf"), any
\* other text and a missing value are NaN.
to_numeric(cell) ==
    CASE cell.t = "num" -> Num(cell.n)
      [] cell.t = "int" -> Num(cell.n * Den)
      [] cell.t = "empty" -> NaN
      [] cell.t = "text" ->
           LET f == ParseFloat(cell.s) IN IF f.ok THEN f.v ELSE NaN

\* mutant: an error of pd.read_excel is swallowed and the sheet read as empty
parse_sheet_swallow(sheet) ==
    LET config == get_column_config(sheet.name) IN
    IF ~sheet.readable THEN [raised |-> FALSE, rows |-> <<>>]
    ELSE IF \E c \in {"item", "sku", "display", "qoh", "avg"} : config[c] >= sheet.ncols
    THEN [raised |-> FALSE, rows |-> <<>>]
    ELSE [raised |-> FALSE,
          rows |-> [k \in 1..Len(sheet.rows) |->
                      Row(astype_str(sheet.rows[k][config.item]),
                          astype_str(sheet.rows[k][config.sku]),
                          astype_str(sheet.rows[k][config.display]),
                          to_numeric(sheet.rows[k][config.qoh]),
                          to_numeric(sheet.rows[k][config.avg]),
                          sheet.name)]]

\* parse_sheet(xl, sheet_name), sheet being what pd.read_excel(xl, sheet_name,
\* header=1) gives: an error, or a frame of ncols columns.  raised: the error
\* leaves parse_sheet; rows: the frame returned otherwise.
parse_sheet(sheet) ==
    LET config == get_column_config(sheet.name) IN
    IF ~sheet.readable THEN [raised |-> TRUE, rows |-> <<>>]
    ELSE IF \E c \in {"item", "sku", "display", "qoh", "avg"} : config[c] >= sheet.ncols
    THEN [raised |-> FALSE, rows |-> <<>>]
    ELSE [raised |-> FALSE,
          rows |-> [k \in 1..Len(sheet.rows) |->
                      Row(astype_str(sheet.rows[k][config.item]),
                          astype_str(sheet.rows[k][config.sku]),
                          astype_str(sheet.rows[k][config.display]),
                          to_numeric(sheet.rows[k][config.qoh]),
                          to_numeric(sheet.rows[k][config.avg]),
                          sheet.name)]]

\* mutant: a sheet is recorded whether or not it yielded rows
record_sheet_always(frame, sheet_name, st) ==
    [stats |-> [n \in DOMAIN st.stats \cup {sheet_name} |->
                    IF n = sheet_name THEN Len(frame) ELSE st.stats[n]],
     all_data |-> Append(st.all_data, frame)]

\* parse_excel lines 103-105: stats and all_data after one parsed sheet
record_sheet(frame, sheet_name, st) ==
    IF frame # <<>>
    THEN [stats |-> [n \in DOMAIN st.stats \cup {sheet_name} |->
                        IF n = sheet_name THEN Len(frame) ELSE st.stats[n]],
          all_data |-> Append(st.all_data, frame)]
    ELSE st

RECURSIVE concat(_)
\* pd.concat(all_data, ignore_index=True)
concat(frames) ==
    IF frames = <<>> THEN <<>> ELSE Head(frames) \o concat(Tail(frames))

---------------------------------------------------------------------------
(* Values of the variables a specification does not use *)

EmptyMap == [k \in {} |-> 0]
NoFile == [present |-> FALSE, opens |-> FALSE, sheets |-> <<>>]
NoArg == [qoh |-> 0, avg |-> 0]
NoRet == [urgency |-> "unset", months |-> Inf, order |-> 0]

---------------------------------------------------------------------------
(* Direct calls of the two calculator functions, as process_inventory      *)
(* makes them (calculator.py lines 84 and 99), on one argument pair.        *)

\* every qoh and monthly_avg from -1 to MaxQty in steps of 1 / Den
QtyRange == (-Den)..(MaxQty * Den)

InitCalc ==
    /\ pc = "calc"
    /\ arg \in [qoh : QtyRange, avg : QtyRange]
    /\ ret = NoRet
    /\ wb = NoFile /\ idx = 0 /\ all_data = <<>> /\ stats = EmptyMap
    /\ df = <<>> /\ ri = 0 /\ items = <<>> /\ counts = EmptyMap
    /\ outcome = "none"

Calc ==
    /\ pc = "calc"
    /\ LET u == calculate_urgency(arg.qoh, arg.avg) IN
       ret' = [urgency |-> u.urgency, months |-> u.months,
               order |-> calculate_suggested_order(arg.qoh, arg.avg)]
    /\ pc' = "calc_done"
    /\ UNCHANGED <<wb, idx, all_data, stats, df, ri, items, counts, outcome, arg>>

NextCalc == Calc

SpecCalc == InitCalc /\ [][NextCalc]_vars

---------------------------------------------------------------------------
(* Claims about the calculator functions (checked under SpecCalc) *)

\* C2: with monthly_average > 0, calculate_urgency returns (CRITICAL, 0)
\* when qoh <= 0, and otherwise months_of_stock = qoh / monthly_average with
\* URGENT exactly when months < 1, WARNING exactly when 1 <= months < 2 and
\* OK exactly when months >= 2 (months = 1 is WARNING, months = 2 is OK).
C2_UrgencyBoundaries ==
    (pc = "calc_done" /\ arg.avg > 0) =>
        IF arg.qoh <= 0
        THEN ret.urgency = "CRITICAL" /\ ret.months.num = 0 /\ ret.months.den > 0
        ELSE /\ ret.months.den > 0
             /\ ret.months.num * arg.avg = arg.qoh * ret.months.den
             /\ ret.urgency \in {"URGENT", "WARNING", "OK"}
             /\ (ret.urgency = "URGENT") <=> (arg.qoh < arg.avg)
             /\ (ret.urgency = "WARNING") <=> (arg.avg <= arg.qoh /\ arg.qoh < 2 * arg.avg)
             /\ (ret.urgency = "OK") <=> (arg.qoh >= 2 * arg.avg)

\* C2 witness: a call with months_of_stock exactly 1.0 returned WARNING
C2_Witness ==
    /\ pc = "calc_done"
    /\ arg.avg > 0 /\ arg.qoh = arg.avg
    /\ ret.urgency = "WARNING"

\* C3: with qoh >= 0 and monthly_average > 0, calculate_suggested_order
\* returns max(0, floor(3 * monthly_average - qoh)), never a negative number;
\* (0, 5) gives 15, (10, 20) gives 50 and (40, 20) gives 20.
C3_SuggestedOrder ==
    (pc = "calc_done" /\ arg.qoh >= 0 /\ arg.avg > 0) =>
        LET shortfall == 3 * arg.avg - arg.qoh
            floor == shortfall \div Den
        IN /\ ret.order >= 0
           /\ ret.order = (IF floor > 0 THEN floor ELSE 0)
           /\ (arg.qoh = 0 /\ arg.avg = 5 * Den) => ret.order = 15
           /\ (arg.qoh = 10 * Den /\ arg.avg = 20 * Den) => ret.order = 50
           /\ (arg.qoh = 40 * Den /\ arg.avg = 20 * Den) => ret.order = 20

\* C3 witness: a call whose shortfall is negative and not whole, where int()
\* and floor differ, returned 0
C3_Witness ==
    /\ pc = "calc_done"
    /\ arg.avg > 0 /\ arg.qoh >= 0
    /\ 3 * arg.avg - arg.qoh < 0 /\ (3 * arg.avg - arg.qoh) % Den # 0
    /\ ret.order = 0

---------------------------------------------------------------------------
(* Input pools *)

\* sequences over S of length 0..n
SeqsUpTo(S, n) == UNION {[1..k -> S] : k \in 0..n}


Clean == <<"K", "1">>
Hashed == <<"#", "R", "E", "F", "!">>
InnerHash == <<"K", "#">>

\* -1, 0, 1/Den, 1, 2 and a missing value
QtyPool == {NaN, Num(-Den), Num(0), Num(1), Num(Den), Num(2 * Den)}


\* rows of a parsed frame: every pair of numeric fields under clean strings,
\* every kind of string field over numeric fields that are in order, and
\* infinite numeric fields (the text "inf" of a sheet) under clean strings
RowPool ==
    {Row(Clean, Clean, Clean, q, a, "Kits") : q \in QtyPool, a \in QtyPool}
    \cup {Row(Hashed, Clean, Clean, Num(Den), Num(Den), "Kits"),
          Row(Clean, Hashed, Clean, Num(Den), Num(Den), "Kits"),
          Row(Clean, Clean, Hashed, Num(Den), Num(Den), "Kits"),
          Row(NanStr, Clean, Clean, Num(Den), Num(Den), "Wood"),
          Row(Clean, InnerHash, Clean, Num(Den), Num(Den), "Wood"),
          Row(Clean, Clean, Clean, PosInf, Num(Den), "Kits"),
          Row(Clean, Clean, Clean, PosInf, Num(0), "Kits"),
          Row(Clean, Clean, Clean, Num(Den), PosInf, "Kits"),
          Row(Clean, Clean, Clean, PosInf, PosInf, "Kits"),
          Row(Clean, Clean, Clean, NegInf, Num(Den), "Kits")}

\* items as process_inventory builds them, from the rows it keeps
ItemPool ==
    {process_row(Row(Clean, Clean, Clean, Num(q), Num(a), "Kits"), <<>>).items[1] :
        q \in {0, 1, Den, 2 * Den}, a \in {1, Den, 2 * Den}}

---------------------------------------------------------------------------
(* process_inventory on a parsed frame, row by row *)

InitItems ==
    /\ pc = "process"
    /\ df \in SeqsUpTo(RowPool, MaxRows)
    /\ ri = 1 /\ items = <<>>
    /\ wb = NoFile /\ idx = 0 /\ all_data = <<>> /\ stats = EmptyMap
    /\ counts = EmptyMap /\ outcome = "none" /\ arg = NoArg /\ ret = NoRet

\* one turn of the loop over df.iterrows(); an error raised in it ends
\* process_inventory (its list is gone, main's items is never bound) and
\* reaches main's except clause
ProcessRow ==
    /\ pc = "process" /\ ri <= Len(df)
    /\ LET r == process_row(df[ri], items) IN
       IF r.raised
       THEN items' = <<>> /\ ri' = ri /\ outcome' = "error" /\ pc' = "done"
       ELSE items' = r.items /\ ri' = ri + 1 /\ UNCHANGED <<pc, outcome>>
    /\ UNCHANGED <<wb, idx, all_data, stats, df, counts, arg, ret>>

\* the loop is over: return items (main goes on to sort_items)
ProcessReturn ==
    /\ pc = "process" /\ ri > Len(df)
    /\ pc' = "sort"
    /\ UNCHANGED <<wb, idx, all_data, stats, df, ri, items, counts, outcome, arg, ret>>

NextItems == ProcessRow \/ ProcessReturn

SpecItems == InitItems /\ [][NextItems]_vars

---------------------------------------------------------------------------
(* Direct calls of sort_items and count_by_urgency on an item list *)

InitAgg ==
    /\ pc = "agg"
    /\ arg \in SeqsUpTo(ItemPool, MaxItems)
    /\ items = <<>> /\ counts = EmptyMap
    /\ wb = NoFile /\ idx = 0 /\ all_data = <<>> /\ stats = EmptyMap
    /\ df = <<>> /\ ri = 0 /\ outcome = "none" /\ ret = NoRet

SortCall ==
    /\ pc = "agg"
    /\ items' = sort_items(arg)
    /\ pc' = "agg_sorted"
    /\ UNCHANGED <<wb, idx, all_data, stats, df, ri, counts, outcome, arg, ret>>

CountCall ==
    /\ pc = "agg_sorted"
    /\ counts' = count_by_urgency(items)
    /\ pc' = "agg_counted"
    /\ UNCHANGED <<wb, idx, all_data, stats, df, ri, items, outcome, arg, ret>>

NextAgg == SortCall \/ CountCall

SpecAgg == InitAgg /\ [][NextAgg]_vars

---------------------------------------------------------------------------
(* Uploaded files *)

SheetNames == {"Kits", "Wood", "Componet Averages", "Notes"}

\* the identifier and quantity cells of a sheet row
Content(item, sku, display, qoh, avg) ==
    [item |-> item, sku |-> sku, display |-> display, qoh |-> qoh, avg |-> avg]

First == Content(TextCell(Clean), TextCell(Clean), TextCell(Clean), NumCell(Den), NumCell(Den))

ContentPool ==
    {First,
     Content(TextCell(Clean), TextCell(Clean), TextCell(Clean), NumCell(2 * Den), NumCell(0)),
     Content(TextCell(Clean), TextCell(Hashed), TextCell(Clean), NumCell(0), NumCell(2 * Den)),
     Content(EmptyCell, TextCell(Clean), TextCell(Clean), TextCell(<<" ", "i", "n", "f">>), EmptyCell),
     Content(NumCell(1001 * Den), TextCell(Clean), TextCell(InnerHash), NumCell(0), TextCell(<<"1", ".", "5", "\n">>)),
     Content(IntCell(1001), TextCell(Clean), TextCell(Clean), TextCell(<<"i", "n", "f">>), NumCell(Den))}

LeadTime == NumCell(14 * Den)
Remark == TextCell(<<"x">>)

\* a sheet row of ncols columns in the layout the sheet's name goes with:
\* Wood has the lead time in column 5 and quantity on hand in column 7
SheetRow(name, ncols, c) ==
    [col \in 0..(ncols - 1) |->
        CASE col = 1 -> c.item
          [] col = 2 -> c.sku
          [] col = 3 -> TextCell(<<"T">>)
          [] col = 4 -> c.display
          [] col = 5 -> IF name = "Wood" THEN LeadTime ELSE c.qoh
          [] col = 6 -> c.avg
          [] col = 7 -> IF name = "Wood" THEN c.qoh ELSE Remark
          [] OTHER -> EmptyCell]

Sheet(name, readable, ncols, rows) ==
    [name |-> name, readable |-> readable, ncols |-> ncols, rows |-> rows]


\* what pd.read_excel can give for a sheet of that name: for an inventory
\* sheet an error, a frame of 6 or 7 columns, or a frame of 8 columns with
\* up to MaxSheetRows rows; for any other sheet one frame
SheetPool(name) ==
    IF name \in {"Kits", "Wood"}
    THEN {Sheet(name, FALSE, 0, <<>>)}
         \cup {Sheet(name, TRUE, 6, rs) : rs \in {<<>>, <<SheetRow(name, 6, First)>>}}
         \cup {Sheet(name, TRUE, 7, rs) : rs \in {<<>>, <<SheetRow(name, 7, First)>>}}
         \cup {Sheet(name, TRUE, 8, [k \in DOMAIN cs |-> SheetRow(name, 8, cs[k])]) :
                 cs \in SeqsUpTo(ContentPool, MaxSheetRows)}
    ELSE {Sheet(name, TRUE, 8, <<SheetRow(name, 8, First)>>)}

AllSheets == UNION {SheetPool(n) : n \in SheetNames}

\* sheet names of a workbook are distinct
SheetLists ==
    {sh \in SeqsUpTo(AllSheets, MaxSheets) :
        \A i, j \in 1..Len(sh) : i # j => sh[i].name # sh[j].name}

Workbooks ==
    {NoFile, [present |-> TRUE, opens |-> FALSE, sheets |-> <<>>]}
    \cup {[present |-> TRUE, opens |-> TRUE, sheets |-> sh] : sh \in SheetLists}

---------------------------------------------------------------------------
(* main (app.py) with parse_excel, process_inventory and sort_items *)

Init ==
    /\ pc = "main"
    /\ wb \in Workbooks
    /\ idx = 0 /\ all_data = <<>> /\ stats = EmptyMap
    /\ df = <<>> /\ ri = 0 /\ items = <<>> /\ counts = EmptyMap
    /\ outcome = "none" /\ arg = NoArg /\ ret = NoRet

\* main lines 315-330: without a file the hint is shown and main returns
Main ==
    /\ pc = "main"
    /\ IF ~wb.present
       THEN outcome' = "hint" /\ pc' = "done"
       ELSE outcome' = outcome /\ pc' = "parse_excel"
    /\ UNCHANGED <<wb, idx, all_data, stats, df, ri, items, counts, arg, ret>>

\* parse_excel lines 90-93: pd.ExcelFile(file); its error reaches main's
\* except clause
OpenWorkbook ==
    /\ pc = "parse_excel"
    /\ IF ~wb.opens
       THEN outcome' = "error" /\ pc' = "done" /\ idx' = idx
       ELSE outcome' = outcome /\ pc' = "sheets" /\ idx' = 1
    /\ all_data' = <<>> /\ stats' = EmptyMap
    /\ UNCHANGED <<wb, df, ri, items, counts, arg, ret>>

\* parse_excel lines 95-105: one turn of the loop over xl.sheet_names; an
\* error of parse_sheet ends parse_excel (its locals are gone) and reaches
\* main's except clause
ParseSheetStep ==
    /\ pc = "sheets" /\ idx <= Len(wb.sheets)
    /\ LET sheet == wb.sheets[idx] IN
       IF sheet.name \in IGNORE_SHEETS \/ sheet.name \notin INVENTORY_SHEETS
       THEN UNCHANGED <<all_data, stats, pc, outcome>> /\ idx' = idx + 1
       ELSE LET r == parse_sheet(sheet) IN
            IF r.raised
            THEN /\ outcome' = "error" /\ pc' = "done"
                 /\ all_data' = <<>> /\ stats' = EmptyMap /\ idx' = idx
            ELSE LET st == record_sheet(r.rows, sheet.name, [stats |-> stats, all_data |-> all_data]) IN
                 /\ all_data' = st.all_data /\ stats' = st.stats
                 /\ idx' = idx + 1
                 /\ UNCHANGED <<pc, outcome>>
    /\ UNCHANGED <<wb, df, ri, items, counts, arg, ret>>

\* parse_excel lines 107-111: the combined frame and stats are returned
ParseReturn ==
    /\ pc = "sheets" /\ idx > Len(wb.sheets)
    /\ df' = IF all_data = <<>> THEN <<>> ELSE concat(all_data)
    /\ pc' = "parsed"
    /\ UNCHANGED <<wb, idx, all_data, stats, ri, items, counts, outcome, arg, ret>>

\* mutant: an empty extraction is not reported, main goes on
CheckExtraction_on ==
    /\ pc = "parsed"
    /\ items' = <<>> /\ ri' = 1 /\ pc' = "process"
    /\ UNCHANGED <<wb, idx, all_data, stats, df, counts, outcome, arg, ret>>

\* main lines 337-350: an empty frame is reported and main returns;
\* otherwise process_inventory is entered.  (get_parsing_issues, lines
\* 343-347, only shows advisory strings and changes nothing here.)
CheckExtraction ==
    /\ pc = "parsed"
    /\ IF df = <<>>
       THEN outcome' = "no_data" /\ pc' = "done" /\ UNCHANGED <<items, ri>>
       ELSE outcome' = outcome /\ pc' = "process" /\ items' = <<>> /\ ri' = 1
    /\ UNCHANGED <<wb, idx, all_data, stats, df, counts, arg, ret>>

\* main line 351: items = sort_items(items)
SortItems ==
    /\ pc = "sort"
    /\ items' = sort_items(items)
    /\ pc' = "sorted"
    /\ UNCHANGED <<wb, idx, all_data, stats, df, ri, counts, outcome, arg, ret>>

\* main lines 353-355: an empty item list is reported and main returns
CheckItems ==
    /\ pc = "sorted"
    /\ IF items = <<>>
       THEN outcome' = "no_demand" /\ pc' = "done"
       ELSE outcome' = outcome /\ pc' = "render"
    /\ UNCHANGED <<wb, idx, all_data, stats, df, ri, items, counts, arg, ret>>

\* main lines 362-396: metrics from count_by_urgency, the table, the export
Render ==
    /\ pc = "render"
    /\ counts' = count_by_urgency(items)
    /\ outcome' = "rendered"
    /\ pc' = "done"
    /\ UNCHANGED <<wb, idx, all_data, stats, df, ri, items, arg, ret>>

Next ==
    \/ Main
    \/ OpenWorkbook
    \/ ParseSheetStep
    \/ ParseReturn
    \/ CheckExtraction
    \/ ProcessRow
    \/ ProcessReturn
    \/ SortItems
    \/ CheckItems
    \/ Render

Spec == Init /\ [][Next]_vars

---------------------------------------------------------------------------
(* Claims about process_inventory (checked under SpecItems) *)

\* the rows process_inventory has been through
Seen == SubSeq(df, 1, ri - 1)

\* a row with no demand: monthly_average missing or <= 0
NoDemand(row) == row.monthly_average.nan \/ row.monthly_average.n <= 0

\* C1: every InventoryItem of process_inventory has monthly_average > 0,
\* and the turn of the loop that takes a row whose monthly_average is
\* missing or <= 0 adds no item, whatever the row's other fields are.
C1_DemandFilter ==
    /\ [](\A i \in 1..Len(items) : items[i].monthly_average > 0)
    /\ [][(pc = "process" /\ ri <= Len(df) /\ NoDemand(df[ri])) => items' = items]_vars

\* C1 witness: the loop went past a row with qoh > 0 and monthly_average = 0
\* and past a row it kept
C1_Witness ==
    /\ pc = "sort"
    /\ Len(items) = 1
    /\ \E k \in 1..Len(df) : df[k].qoh = Num(Den) /\ df[k].monthly_average = Num(0)

\* the validity gate and the demand test, as the claim words them
Eligible(row) ==
    /\ ~row.qoh.nan /\ ~row.monthly_average.nan
    /\ row.qoh.n >= 0 /\ row.monthly_average.n >= 0
    /\ \A f \in {row.item_id, row.sku, row.display_name} : f = <<>> \/ Head(f) # "#"
    /\ row.monthly_average.n > 0

RowIdent(r) == <<r.item_id, r.sku, r.category, r.display_name, r.monthly_average.n>>
ItemIdent(i) == <<i.item_id, i.sku, i.category, i.display_name, i.monthly_average>>

\* C6: process_inventory returns one item for each row that passes the
\* validity gate and has monthly_average > 0, in the order of the rows, and
\* none for any other row: so it is for the rows seen while the loop runs,
\* and for the whole frame once the call has ended.
C6_OneItemPerEligibleRow ==
    pc \in {"process", "sort", "done"} =>
        LET kept == SelectSeq(IF pc = "process" THEN Seen ELSE df, Eligible) IN
        /\ Len(items) = Len(kept)
        /\ \A i \in 1..Len(items) : ItemIdent(items[i]) = RowIdent(kept[i])

---------------------------------------------------------------------------
(* Claims about sort_items and count_by_urgency (checked under SpecAgg) *)

\* severity order of the claim: CRITICAL < URGENT < WARNING < OK
Severity(u) ==
    CASE u = "CRITICAL" -> 1 [] u = "URGENT" -> 2 [] u = "WARNING" -> 3 [] u = "OK" -> 4

SameKey(x, y) == x.urgency = y.urgency /\ x.monthly_average = y.monthly_average

\* C4: in the output of sort_items, for i before j urgency(i) is at least as
\* severe as urgency(j) and, with equal urgency, monthly_average(i) >=
\* monthly_average(j); items with equal urgency and monthly_average keep the
\* relative order they had in the input.
C4_SortOrder ==
    pc \in {"agg_sorted", "agg_counted"} =>
        /\ Len(items) = Len(arg)
        /\ \A i, j \in 1..Len(items) :
              i < j =>
                /\ Severity(items[i].urgency) <= Severity(items[j].urgency)
                /\ items[i].urgency = items[j].urgency
                      => items[i].monthly_average >= items[j].monthly_average
        /\ \A k \in 1..Len(arg) :
              SelectSeq(items, LAMBDA x : SameKey(x, arg[k]))
                = SelectSeq(arg, LAMBDA x : SameKey(x, arg[k]))

\* C4 witness: the input held two different items with equal keys behind an
\* item that sorts after them, and the sort moved them
C4_Witness ==
    /\ pc = "agg_sorted"
    /\ Len(arg) = 3
    /\ SameKey(arg[2], arg[3]) /\ arg[2] # arg[3]
    /\ KeyLess(key(arg[2]), key(arg[1]))
    /\ items = <<arg[2], arg[3], arg[1]>>

\* C5: count_by_urgency returns a map with exactly the keys CRITICAL, URGENT,
\* WARNING and OK, each value the number of items of that urgency (0 for a
\* tier with none), and the four values sum to the number of items.
C5_CountByUrgency ==
    pc = "agg_counted" =>
        /\ DOMAIN counts = {"CRITICAL", "URGENT", "WARNING", "OK"}
        /\ \A u \in DOMAIN counts :
              counts[u] = Cardinality({i \in 1..Len(items) : items[i].urgency = u})
        /\ counts["CRITICAL"] + counts["URGENT"] + counts["WARNING"] + counts["OK"] = Len(items)

\* C5 witness: three items counted, two in one tier and none in another
C5_Witness ==
    /\ pc = "agg_counted"
    /\ Len(items) = 3
    /\ counts["CRITICAL"] = 2 /\ counts["URGENT"] = 1
    /\ counts["WARNING"] = 0 /\ counts["OK"] = 0

---------------------------------------------------------------------------
(* Claims about parse_excel and main (checked under Spec) *)

Known(name) == name \in INVENTORY_SHEETS /\ name \notin IGNORE_SHEETS

\* the workbook opened
Opened == wb.present /\ wb.opens

\* reading some known sheet of the workbook fails
SomeSheetFails == \E k \in 1..Len(wb.sheets) : Known(wb.sheets[k].name) /\ ~wb.sheets[k].readable

\* parse_excel returns its pair to main
ExtractionReturns == Opened /\ ~SomeSheetFails

\* the sheet has the columns its configured positions need
Enough(sheet) == sheet.ncols > (IF sheet.name = "Wood" THEN 7 ELSE 6)

\* number of rows of the returned frame that come from the sheet
Yield(name) == Cardinality({k \in 1..Len(df) : df[k].category = name})

RECURSIVE SumOver(_, _)
SumOver(f, S) ==
    IF S = {} THEN 0 ELSE LET x == CHOOSE y \in S : TRUE IN f[x] + SumOver(f, S \ {x})

\* process_inventory returns its list to main: no row of the frame makes
\* it raise
ClassificationReturns == \A k \in 1..Len(df) : ~process_row(df[k], <<>>).raised

\* C7: main ends in one outcome: "no inventory data found" exactly when
\* extraction returned an empty row set, "no items with active demand"
\* exactly when extraction returned rows and classification returned no
\* item, metrics and table only when classification returned an item, the
\* error exactly when extraction or classification did not return;
\* classification is never run on an empty extraction.
C7_Outcomes ==
    /\ pc \in {"process", "sort", "sorted", "render"} => df # <<>>
    /\ counts # EmptyMap => items # <<>>
    /\ pc = "done" =>
        /\ outcome \in {"hint", "error", "no_data", "no_demand", "rendered"}
        /\ (outcome = "no_data") <=> (ExtractionReturns /\ df = <<>>)
        /\ (outcome = "no_demand") <=>
              (ExtractionReturns /\ df # <<>> /\ ClassificationReturns /\ items = <<>>)
        /\ (outcome = "rendered") <=>
              (ExtractionReturns /\ ClassificationReturns /\ items # <<>>)
        /\ (outcome = "rendered") <=> (counts # EmptyMap)
        /\ (outcome = "error") <=>
              (wb.present /\ (~ExtractionReturns \/ ~ClassificationReturns))
        /\ df = <<>> => ri = 0

\* C7 witness: rows were extracted, none became an item, and main reported
\* "no items with active demand"
C7_Witness ==
    /\ pc = "done"
    /\ outcome = "no_demand"
    /\ Len(df) = 2 /\ ri = 3

\* C8 as claimed: when reading one known sheet fails while the workbook
\* opened, the rows of the other known sheets are still returned.
C8_OtherSheetsStillExtracted ==
    (pc = "done" /\ Opened /\ SomeSheetFails) =>
        \A k \in 1..Len(wb.sheets) :
            LET sheet == wb.sheets[k] IN
            (Known(sheet.name) /\ sheet.readable /\ Enough(sheet))
                => Yield(sheet.name) = Len(sheet.rows)

\* C8 amended: when reading one known sheet fails while the workbook opened,
\* the error leaves parse_excel: no rows and no stats of any sheet are
\* returned, nothing is classified, and main reports one error.
C8_SheetErrorAborts ==
    (pc = "done" /\ Opened /\ SomeSheetFails) =>
        /\ outcome = "error"
        /\ df = <<>> /\ stats = EmptyMap /\ all_data = <<>>
        /\ items = <<>> /\ ri = 0

\* C8 witness: a known sheet with a row was read, the next sheet failed,
\* and main ended with the error
C8_Witness ==
    /\ pc = "done" /\ outcome = "error" /\ Opened
    /\ Len(wb.sheets) = 2
    /\ Known(wb.sheets[1].name) /\ wb.sheets[1].readable
    /\ Enough(wb.sheets[1]) /\ Len(wb.sheets[1].rows) = 1
    /\ Known(wb.sheets[2].name) /\ ~wb.sheets[2].readable

\* C9: when parse_excel returns, stats has an entry for a sheet exactly when
\* the sheet is known, not ignored and yielded a row; the entry is the
\* sheet's row count and the entries sum to the length of the frame; a known
\* sheet with too few columns yields nothing and has no entry while the
\* other known sheets yield all their rows; if no sheet yields a row the
\* frame and stats are empty.
C9_Stats ==
    (ExtractionReturns /\ pc \notin {"main", "parse_excel", "sheets"}) =>
        /\ \A name \in SheetNames \cup DOMAIN stats :
              /\ (name \in DOMAIN stats) <=> (Known(name) /\ Yield(name) >= 1)
              /\ name \in DOMAIN stats => stats[name] = Yield(name)
        /\ SumOver(stats, DOMAIN stats) = Len(df)
        /\ \A k \in 1..Len(wb.sheets) :
              LET sheet == wb.sheets[k] IN
              /\ (Known(sheet.name) /\ ~Enough(sheet))
                    => (Yield(sheet.name) = 0 /\ sheet.name \notin DOMAIN stats)
              /\ (Known(sheet.name) /\ Enough(sheet)) => Yield(sheet.name) = Len(sheet.rows)
              /\ ~Known(sheet.name) => Yield(sheet.name) = 0
        /\ (\A name \in SheetNames : Yield(name) = 0) => (df = <<>> /\ stats = EmptyMap)

\* C9 witness: a known sheet with too few columns came first and has no
\* entry, and the sheet after it is recorded with its row
C9_Witness ==
    /\ pc = "parsed"
    /\ Len(wb.sheets) = 2
    /\ wb.sheets[1].name = "Kits" /\ wb.sheets[1].ncols = 6 /\ Len(wb.sheets[1].rows) = 1
    /\ wb.sheets[2].name = "Wood"
    /\ DOMAIN stats = {"Wood"} /\ stats["Wood"] = 1 /\ Len(df) = 1

SheetNamed(name) == CHOOSE k \in 1..Len(wb.sheets) : wb.sheets[k].name = name

ItemsOf(name) == SelectSeq(items, LAMBDA i : i.category = name)

Class(i) == <<i.urgency, i.months_of_stock, i.suggested_order_qty>>

\* the two sheets carry the same values, each in its own columns
SameValues(wood, std) ==
    /\ Len(wood.rows) = Len(std.rows)
    /\ \A r \in 1..Len(wood.rows) :
          /\ wood.rows[r][7] = std.rows[r][5]
          /\ wood.rows[r][6] = std.rows[r][6]
          /\ \A c \in {1, 2, 4} : wood.rows[r][c] = std.rows[r][c]

\* C10: a row extracted from the sheet "Wood" has monthly_average from column
\* 6 and qoh from column 7, a row of any other known sheet qoh from column 5
\* and monthly_average from column 6, both item id, sku and display name
\* from columns 1, 2 and 4 (rows come only from a sheet that has the
\* columns its positions need); and a Wood sheet and a standard sheet that carry
\* the same values in their columns get the same urgency, months_of_stock
\* and suggested_order_qty, item for item.
C10_WoodColumns ==
    /\ \A f \in 1..Len(all_data) :
          LET frame == all_data[f]
              name == frame[1].category
              sheet == wb.sheets[SheetNamed(name)]
          IN /\ Enough(sheet)
             /\ Len(frame) = Len(sheet.rows)
             /\ \A r \in 1..Len(frame) :
                   /\ frame[r].item_id = astype_str(sheet.rows[r][1])
                   /\ frame[r].sku = astype_str(sheet.rows[r][2])
                   /\ frame[r].display_name = astype_str(sheet.rows[r][4])
                   /\ frame[r].monthly_average = to_numeric(sheet.rows[r][6])
                   /\ frame[r].qoh = to_numeric(sheet.rows[r][IF name = "Wood" THEN 7 ELSE 5])
    /\ (pc \in {"sort", "sorted", "render"} \/ (pc = "done" /\ outcome \in {"no_demand", "rendered"})) =>
          \A w, k \in 1..Len(wb.sheets) :
              LET wood == wb.sheets[w]
                  std == wb.sheets[k]
              IN (/\ wood.name = "Wood" /\ std.name # "Wood" /\ Known(std.name)
                  /\ Enough(wood) /\ Enough(std) /\ SameValues(wood, std))
                 => /\ Len(ItemsOf("Wood")) = Len(ItemsOf(std.name))
                    /\ \A i \in 1..Len(ItemsOf("Wood")) :
                          Class(ItemsOf("Wood")[i]) = Class(ItemsOf(std.name)[i])

\* C10 witness: a Wood row and a Kits row with the same values were
\* extracted and classified alike
C10_Witness ==
    /\ pc = "sort"
    /\ Len(all_data) = 2 /\ Len(items) = 2
    /\ items[1].category = "Wood" /\ items[2].category = "Kits"
    /\ Class(items[1]) = Class(items[2])
    /\ wb.sheets[1].rows[1][5] = LeadTime

---------------------------------------------------------------------------
(* Claims about the stored quantity and the order (checked under SpecItems) *)

\* max(0, floor(3 * avg - qoh)) for avg and qoh in units of 1 / Den
OrderFormula(qoh, avg) ==
    LET f == (3 * avg - qoh) \div Den IN IF f > 0 THEN f ELSE 0

\* C11 as claimed: every item's suggested_order_qty is
\* max(0, floor(3 * item.monthly_average - item.qoh)) with item.qoh the
\* stored, floored integer.
C11_OrderFromStoredQoh ==
    \A i \in 1..Len(items) :
        items[i].suggested_order_qty = OrderFormula(items[i].qoh * Den, items[i].monthly_average)

\* C11 amended: the qoh an item stores is the row's quantity floored to an
\* integer, but the order is computed from the row's quantity as it is:
\* suggested_order_qty = max(0, floor(3 * monthly_average - row qoh)); this
\* is the value over the stored integer whenever the row's quantity is
\* whole, and never more than it.
C11_OrderFromSourceQoh ==
    pc \in {"process", "sort"} =>
        LET kept == SelectSeq(Seen, Eligible) IN
        /\ Len(items) = Len(kept)
        /\ \A i \in 1..Len(items) :
              LET src == kept[i].qoh.n
                  stored == OrderFormula(items[i].qoh * Den, items[i].monthly_average)
              IN /\ items[i].qoh * Den <= src /\ src < (items[i].qoh + 1) * Den
                 /\ items[i].suggested_order_qty = OrderFormula(src, kept[i].monthly_average.n)
                 /\ items[i].suggested_order_qty <= stored
                 /\ src % Den = 0 => items[i].suggested_order_qty = stored

\* C11 witness: a row with qoh 1 / Den and monthly_average 1 became an item
\* that stores qoh 0 and suggests 2, where the stored integer would give 3
C11_Witness ==
    /\ pc = "sort"
    /\ Len(df) = 1 /\ df[1].qoh = Num(1) /\ df[1].monthly_average = Num(Den)
    /\ Len(items) = 1 /\ items[1].qoh = 0
    /\ items[1].suggested_order_qty = 2

---------------------------------------------------------------------------
(* Claim about urgency and order of one row (checked under SpecCalc, whose  *)
(* call is the pair of calls process_inventory makes for a row)             *)

\* the call is one process_inventory makes for a row that becomes an item
ItemCall == pc = "calc_done" /\ arg.qoh >= 0 /\ arg.avg > 0

Attention == ret.urgency \in {"CRITICAL", "URGENT", "WARNING"}

\* C12 as claimed: an item whose urgency is CRITICAL, URGENT or WARNING has
\* suggested_order_qty >= 1, for every positive monthly_average.
C12_AttentionHasOrder ==
    (ItemCall /\ Attention) => ret.order >= 1

\* C12 amended: an item whose urgency is CRITICAL, URGENT or WARNING has
\* suggested_order_qty >= 1 when its monthly_average is at least 1; with a
\* monthly_average below 1 the order is >= 1 exactly when
\* 3 * monthly_average - qoh >= 1, and is 0 otherwise.
C12_AttentionHasOrderFromOne ==
    (ItemCall /\ Attention) =>
        /\ arg.avg >= Den => ret.order >= 1
        /\ (ret.order >= 1) <=> (3 * arg.avg - arg.qoh >= Den)

\* C12 witness: monthly_average 1 and qoh just under 2 is WARNING with an
\* order of 1
C12_Witness ==
    /\ ItemCall
    /\ arg.avg = Den /\ arg.qoh = 2 * Den - 1
    /\ ret.urgency = "WARNING" /\ ret.order = 1

===========================================================================
